---- MODULE Spec2Model ----
(***************************************************************************)
(* Model of the fintrace relationship engine: attribute derivation, the    *)
(* graph-mutation statements of the repository, the relationship queries   *)
(* and the bulk ingestor's worker pool.                                    *)
(*                                                                         *)
(* Go strings are sequences of one-character strings, so that trimming,    *)
(* lower-casing and joining are computed and not assumed.  The graph is a  *)
(* pair of bags (nodes, edges): a bag and not a set, so that a write that  *)
(* created a second node or edge for the same key would be visible.        *)
(* Every write statement is one atomic step: the store is assumed to give  *)
(* per-statement atomicity.                                                *)
(*                                                                         *)
(* Spec, SpecBulk, SpecPool and SpecCli follow the nodes and relationships *)
(* of the graph and leave their properties out (props stays empty);        *)
(* SpecStore follows the properties that the statements SET as well.       *)
(***************************************************************************)
EXTENDS Bags, FiniteSets, Integers, Sequences, TLC

VARIABLES
    nodes,      \* bag of graph nodes [label, atype, key]
    edges,      \* bag of graph relationships
    last,       \* the last repository/service call: arguments, result, graph before it
    opCount,    \* number of write calls made through the single-item API
    kind,       \* bulk ingest: "users" or "transactions"
    items,      \* bulk ingest: the batch handed to IngestUsers/IngestTransactions
    ctxDone,    \* bulk ingest: the context is cancelled
    midBatch,   \* bulk ingest: the cancellation came with items dispatched and work left
    dispPc,     \* bulk ingest: position of run's own goroutine
    dispI,      \* bulk ingest: loop variable i of the dispatch loop
    wk,         \* bulk ingest: per worker goroutine [pc, idx, err]
    errCh,      \* bulk ingest: contents of the buffered error channel
    attempts,   \* bulk ingest: per item index, number of workerFn calls
    outcome,    \* bulk ingest: per item index, result of its workerFn call
    ret,        \* bulk ingest: value returned by run
    configured, \* bulk ingest: the worker count handed to NewBulkIngestor
    cli,        \* ingest CLI: its position and what it saw of the run over the users
    clock,      \* attribute generation: the wall clock
    gen,        \* attribute generation: the calls made so far, each with its result
    props,      \* the properties of the nodes and of the relationships
    data        \* data generator: its configuration, position and dataset so far

graphVars == <<nodes, edges>>
apiVars == <<last, opCount>>
bulkVars == <<kind, items, configured, ctxDone, midBatch, dispPc, dispI, wk, errCh, attempts,
              outcome, ret>>
genVars == <<clock, gen, data>>
vars == <<nodes, edges, last, opCount, kind, items, ctxDone, midBatch, dispPc, dispI, wk, errCh,
          attempts, outcome, ret, configured, cli, clock, gen, props, data>>

----------------------------------------------------------------------------
(* Strings *)

EmptyStr == <<>>

IsSpace(c) == c = " "

IsDigit(c) == c \in {"0", "1", "2", "3", "4", "5", "6", "7", "8", "9"}

ToLowerChar(c) ==
    IF c = "A" THEN "a" ELSE IF c = "B" THEN "b" ELSE IF c = "U" THEN "u" ELSE c

ToLower(s) == IF s = <<>> THEN <<>> ELSE [i \in 1..Len(s) |-> ToLowerChar(s[i])]

RECURSIVE TrimLeft(_)
TrimLeft(s) == IF s # <<>> /\ IsSpace(Head(s)) THEN TrimLeft(Tail(s)) ELSE s

RECURSIVE TrimRight(_)
TrimRight(s) ==
    IF s # <<>> /\ IsSpace(s[Len(s)]) THEN TrimRight(SubSeq(s, 1, Len(s) - 1)) ELSE s

TrimSpace(s) == TrimRight(TrimLeft(s))

RECURSIVE TrimLeftBar(_)
TrimLeftBar(s) == IF s # <<>> /\ Head(s) = "|" THEN TrimLeftBar(Tail(s)) ELSE s

RECURSIVE TrimRightBar(_)
TrimRightBar(s) ==
    IF s # <<>> /\ s[Len(s)] = "|" THEN TrimRightBar(SubSeq(s, 1, Len(s) - 1)) ELSE s

\* strings.Trim(s, "|")
TrimBars(s) == TrimRightBar(TrimLeftBar(s))

HasPrefix(s, p) == Len(s) >= Len(p) /\ SubSeq(s, 1, Len(p)) = p

RECURSIVE StripNonDigits(_)
StripNonDigits(s) ==
    IF s = <<>> THEN <<>>
    ELSE IF IsDigit(Head(s)) THEN <<Head(s)>> \o StripNonDigits(Tail(s))
    ELSE StripNonDigits(Tail(s))

RECURSIVE CollapseSpaces(_)
CollapseSpaces(s) ==
    IF s = <<>> THEN <<>>
    ELSE IF IsSpace(Head(s))
         THEN <<" ">> \o CollapseSpaces(TrimLeft(s))
         ELSE <<Head(s)>> \o CollapseSpaces(Tail(s))

RECURSIVE Join(_, _)
Join(parts, sep) ==
    IF parts = <<>> THEN <<>>
    ELSE IF Len(parts) = 1 THEN parts[1]
    ELSE parts[1] \o sep \o Join(Tail(parts), sep)

----------------------------------------------------------------------------
(* Attribute normalisation *)

AttributeTypeEmail == "EMAIL"
AttributeTypePhone == "PHONE"
AttributeTypeAddress == "ADDRESS"
AttributeTypeIPAddress == "IP"
AttributeTypeDevice == "DEVICE"
AttributeTypePayment == "PAYMENT_METHOD"
AttributeTypeDayBucket == "TX_DAY_BUCKET"

\* Confidence scores are in hundredths.
defaultConfidenceScore == 100
ConfAddress == 90
ConfUserPayment == 95
ConfIP == 85
ConfDevice == 90
ConfTxPayment == 90
ConfDayBucket == 50

normalizeEmail(email) == TrimSpace(ToLower(email))

normalizePhone(phone) ==
    LET digits == StripNonDigits(TrimSpace(phone))
        cut == IF HasPrefix(digits, <<"0", "0">>) THEN SubSeq(digits, 3, Len(digits))
               ELSE digits
    IN  IF digits = <<>> THEN <<>>
        ELSE IF ~HasPrefix(cut, <<"+">>) THEN <<"+">> \o cut ELSE cut

normalizeAddress(addr) ==
    Join(<<ToLower(TrimSpace(addr.Line1)), ToLower(TrimSpace(addr.Line2)),
           ToLower(TrimSpace(addr.City)), ToLower(TrimSpace(addr.State)),
           ToLower(TrimSpace(addr.PostalCode)), ToLower(TrimSpace(addr.Country))>>,
         <<"|">>)

\* SHA-256 in hex: modelled as an injective tagging of the hashed string.
hashValue(value) == <<"#">> \o value

sanitizeString(value) == TrimSpace(CollapseSpaces(value))

Attr(type, value, raw, conf) ==
    [Type |-> type, Value |-> value, RawValue |-> raw, ConfidenceScore |-> conf]

RECURSIVE PaymentAttrs(_, _)
PaymentAttrs(pms, seen) ==
    IF pms = <<>> THEN <<>>
    ELSE LET pm == Head(pms)
             fp == TrimSpace(pm.Fingerprint)
             identifier == IF fp = <<>> THEN TrimSpace(pm.ID) ELSE fp
         IN  IF identifier = <<>> \/ identifier \in seen
             THEN PaymentAttrs(Tail(pms), seen)
             ELSE <<Attr(AttributeTypePayment, hashValue(identifier), identifier,
                         ConfUserPayment)>>
                  \o PaymentAttrs(Tail(pms), seen \cup {identifier})

FromUser(input) ==
    LET email == normalizeEmail(input.Email)
        phone == normalizePhone(input.Phone)
        addr == normalizeAddress(input.Address)
    IN  (IF email # <<>>
         THEN <<Attr(AttributeTypeEmail, hashValue(email), email, defaultConfidenceScore)>>
         ELSE <<>>)
        \o (IF phone # <<>>
            THEN <<Attr(AttributeTypePhone, hashValue(phone), phone, defaultConfidenceScore)>>
            ELSE <<>>)
        \o (IF TrimBars(addr) # <<>>
            THEN <<Attr(AttributeTypeAddress, hashValue(addr), addr, ConfAddress)>>
            ELSE <<>>)
        \o PaymentAttrs(input.PaymentMethods, {})

\* A timestamp is a number of hours since the epoch (UTC).
HoursPerDay == 24

DigitChar(d) ==
    CASE d = 0 -> "0" [] d = 1 -> "1" [] d = 2 -> "2" [] d = 3 -> "3" [] d = 4 -> "4"
      [] d = 5 -> "5" [] d = 6 -> "6" [] d = 7 -> "7" [] d = 8 -> "8" [] OTHER -> "9"

RECURSIVE NatToStr(_)
NatToStr(n) == IF n < 10 THEN <<DigitChar(n)>> ELSE NatToStr(n \div 10) \o <<DigitChar(n % 10)>>

\* Timestamp.UTC().Format(time.DateOnly): the calendar day of the instant.
FormatDateOnly(ts) == <<"d">> \o NatToStr(ts \div HoursPerDay)

\* Timestamp.UTC().Format(time.RFC3339): the instant itself.
FormatRFC3339(ts) == <<"t">> \o NatToStr(ts)

\* Faulty variant: the day bucket is taken from the wall clock.
FromTransactionNow(input) ==
    LET ip == TrimSpace(input.IPAddress)
        device == TrimSpace(input.DeviceID)
        pm == TrimSpace(input.PaymentMethodID)
    IN  (IF ip # <<>>
         THEN <<Attr(AttributeTypeIPAddress, hashValue(ip), ip, ConfIP)>> ELSE <<>>)
        \o (IF device # <<>>
            THEN <<Attr(AttributeTypeDevice, hashValue(device), device, ConfDevice)>>
            ELSE <<>>)
        \o (IF pm # <<>>
            THEN <<Attr(AttributeTypePayment, hashValue(pm), pm, ConfTxPayment)>>
            ELSE <<>>)
        \o <<Attr(AttributeTypeDayBucket, hashValue(FormatDateOnly(clock)),
                  FormatRFC3339(clock), ConfDayBucket)>>

\* DefaultAttributeGenerator.FromTransaction
FromTransaction(input) ==
    LET ip == TrimSpace(input.IPAddress)
        device == TrimSpace(input.DeviceID)
        pm == TrimSpace(input.PaymentMethodID)
    IN  (IF ip # <<>>
         THEN <<Attr(AttributeTypeIPAddress, hashValue(ip), ip, ConfIP)>> ELSE <<>>)
        \o (IF device # <<>>
            THEN <<Attr(AttributeTypeDevice, hashValue(device), device, ConfDevice)>>
            ELSE <<>>)
        \o (IF pm # <<>>
            THEN <<Attr(AttributeTypePayment, hashValue(pm), pm, ConfTxPayment)>>
            ELSE <<>>)
        \o <<Attr(AttributeTypeDayBucket, hashValue(FormatDateOnly(input.Timestamp)),
                  FormatRFC3339(input.Timestamp), ConfDayBucket)>>

\* Faulty variant: caller-supplied values are normalized like derived ones.
RECURSIVE convertCustomAttributesNormalized(_)
convertCustomAttributesNormalized(attrs) ==
    IF attrs = <<>> THEN <<>>
    ELSE LET a == Head(attrs)
         IN  IF a.Type = "" \/ a.Value = <<>>
             THEN convertCustomAttributesNormalized(Tail(attrs))
             ELSE <<Attr(a.Type, ToLower(TrimSpace(a.Value)), a.RawValue,
                         IF a.ConfidenceScore = 0 THEN defaultConfidenceScore
                         ELSE a.ConfidenceScore)>>
                  \o convertCustomAttributesNormalized(Tail(attrs))

RECURSIVE convertCustomAttributes(_)
convertCustomAttributes(attrs) ==
    IF attrs = <<>> THEN <<>>
    ELSE LET a == Head(attrs)
         IN  IF a.Type = "" \/ a.Value = <<>>
             THEN convertCustomAttributes(Tail(attrs))
             ELSE <<Attr(a.Type, a.Value, a.RawValue,
                         IF a.ConfidenceScore = 0 THEN defaultConfidenceScore
                         ELSE a.ConfidenceScore)>>
                  \o convertCustomAttributes(Tail(attrs))

----------------------------------------------------------------------------
(* The graph store: nodes and relationships, and the MERGE of Cypher *)

UserNode(id) == [label |-> "User", atype |-> "", key |-> id]
TxNode(id) == [label |-> "Transaction", atype |-> "", key |-> id]
AttrNode(type, value) == [label |-> "Attribute", atype |-> type, key |-> value]
PmNode(id) == [label |-> "PaymentMethod", atype |-> "", key |-> id]

\* A relationship with the properties its MERGE pattern names.
Edge(type, src, dst, txId, role, attrHash, linkType) ==
    [type |-> type, src |-> src, dst |-> dst, txId |-> txId, role |-> role,
     attrHash |-> attrHash, linkType |-> linkType]

PlainEdge(type, src, dst) == Edge(type, src, dst, <<>>, "", <<>>, "")

EmptyGraph == [nodes |-> EmptyBag, edges |-> EmptyBag]

\* MERGE: bind the element matching the pattern, create it only when none matches.
Merge(bag, e) == IF BagIn(e, bag) THEN bag ELSE bag (+) SetToBag({e})

\* Faulty variants: CREATE in the place of MERGE.
CreateNode(g, n) == [g EXCEPT !.nodes = g.nodes (+) SetToBag({n})]

CreateEdge(g, e) == [g EXCEPT !.edges = g.edges (+) SetToBag({e})]

\* Faulty variant: the relationship replaces the ones of its type that reach the same
\* node.
ReplaceEdge(g, e) ==
    LET old == {x \in BagToSet(g.edges) : x.type = e.type /\ x.dst = e.dst /\ x # e}
    IN  [g EXCEPT !.edges =
            Merge([x \in BagToSet(g.edges) \ old |-> CopiesIn(x, g.edges)], e)]

MergeNode(g, n) == [g EXCEPT !.nodes = Merge(g.nodes, n)]

MergeEdge(g, e) == [g EXCEPT !.edges = Merge(g.edges, e)]

\* upsertUserCypher, first FOREACH: one attribute after the other.
RECURSIVE MergeUserAttributes(_, _, _)
MergeUserAttributes(g, u, attrs) ==
    IF attrs = <<>> THEN g
    ELSE LET a == AttrNode(Head(attrs).Type, Head(attrs).Value)
         IN  MergeUserAttributes(
                 MergeEdge(MergeNode(g, a), PlainEdge("HAS_ATTRIBUTE", u, a)),
                 u, Tail(attrs))

\* upsertUserCypher, second FOREACH: one payment method after the other.
RECURSIVE MergeUserPaymentMethods(_, _, _)
MergeUserPaymentMethods(g, u, pms) ==
    IF pms = <<>> THEN g
    ELSE LET p == PmNode(Head(pms).ID)
         IN  MergeUserPaymentMethods(
                 MergeEdge(MergeNode(g, p), PlainEdge("USES_PAYMENT_METHOD", u, p)),
                 u, Tail(pms))

\* The graph after upsertUserCypher ran on graph g.
upsertUserCypher(g, userId, attrs, pms) ==
    LET u == UserNode(userId)
    IN  MergeUserPaymentMethods(MergeUserAttributes(MergeNode(g, u), u, attrs), u, pms)

\* upsertTransactionCypher, FOREACH over the attributes.
RECURSIVE MergeTxAttributes(_, _, _)
MergeTxAttributes(g, t, attrs) ==
    IF attrs = <<>> THEN g
    ELSE LET a == AttrNode(Head(attrs).Type, Head(attrs).Value)
         IN  MergeTxAttributes(
                 MergeEdge(MergeNode(g, a), PlainEdge("HAS_ATTRIBUTE", t, a)),
                 t, Tail(attrs))

\* Faulty variant: the transaction itself counts among the others.
AllTransactions(g, txId, attr) ==
    {e.src : e \in {x \in BagToSet(g.edges) :
                        /\ x.type = "HAS_ATTRIBUTE"
                        /\ x.dst = AttrNode(attr.Type, attr.Value)
                        /\ x.src.label = "Transaction"}}

\* OPTIONAL MATCH (other:Transaction)-[:HAS_ATTRIBUTE]->(a)
\* WHERE other.transactionId <> $transactionId, collect(DISTINCT other).
OtherTransactions(g, txId, attr) ==
    {e.src : e \in {x \in BagToSet(g.edges) :
                        /\ x.type = "HAS_ATTRIBUTE"
                        /\ x.dst = AttrNode(attr.Type, attr.Value)
                        /\ x.src.label = "Transaction"
                        /\ x.src.key # txId}}

\* The rows that reach the MERGE of LINKED_TO after UNWIND others: one per attribute
\* (by its position in $attributes) and other transaction possessing it.
LinkRows(g, txId, attrs) ==
    UNION {{<<i, o>> : o \in OtherTransactions(g, txId, attrs[i])} : i \in 1..Len(attrs)}

RECURSIVE MergeLinks(_, _, _, _)
MergeLinks(g, t, attrs, rows) ==
    IF rows = {} THEN g
    ELSE LET r == CHOOSE x \in rows : TRUE
             a == attrs[r[1]]
         IN  MergeLinks(
                 MergeEdge(g, Edge("LINKED_TO", t, r[2], <<>>, "", a.Value, a.Type)),
                 t, attrs, rows \ {r})

\* The graph after upsertTransactionCypher ran on graph g.  The two leading MATCH
\* clauses yield no row when a user is missing, and then no later clause runs; the
\* clauses after UNWIND others run only when some row reached it.
upsertTransactionCypher(g, txId, senderId, receiverId, attrs, pmId) ==
    LET sender == UserNode(senderId)
        receiver == UserNode(receiverId)
        t == TxNode(txId)
        g1 == MergeNode(g, t)
        g2 == MergeEdge(g1, Edge("PARTICIPATED_IN", sender, t, txId, "SENDER", <<>>, ""))
        g3 == MergeEdge(g2, Edge("PARTICIPATED_IN", receiver, t, txId, "RECEIVER", <<>>, ""))
        g4 == MergeEdge(g3, Edge("SENT_TO", sender, receiver, txId, "", <<>>, ""))
        g5 == MergeEdge(g4, Edge("RECEIVED_FROM", receiver, sender, txId, "", <<>>, ""))
        g6 == MergeTxAttributes(g5, t, attrs)
        rows == LinkRows(g6, txId, attrs)
        g7 == MergeLinks(g6, t, attrs, rows)
        pm == PmNode(pmId)
    IN  IF ~(BagIn(sender, g.nodes) /\ BagIn(receiver, g.nodes)) THEN g
        ELSE IF rows # {} /\ pmId # <<>> /\ BagIn(pm, g7.nodes)
             THEN MergeEdge(g7, PlainEdge("PAYMENT_METHOD_RELATES", t, pm))
             ELSE g7

----------------------------------------------------------------------------
(* Repository and service: single-item operations *)

ErrNil == "nil"
ErrValidation == "validation"
ErrStore == "store"
ErrCanceled == "canceled"
\* A store error of the transient kind: the statement lost a deadlock.
ErrDeadlock == "deadlock"

\* What a call hands back: the graph after it, its error, and the number of write and
\* read statements it sent to the graph client.
Outcome(g, err, writes, reads, result) ==
    [g |-> g, err |-> err, writes |-> writes, reads |-> reads, result |-> result]

NoResult == [Nodes |-> <<>>, Edges |-> <<>>, Hops |-> 0, Users |-> {},
             LinkedTransactions |-> {}, DirectLinks |-> {}, Transactions |-> {},
             SharedAttributes |-> {}]

\* neo4jClient.ExecuteWrite: the statement runs as a whole, or fails and changes nothing.
\* storeErr is the error of the driver, ErrNil when the statement ran.
ExecuteWrite(g, after, storeErr) ==
    IF storeErr # ErrNil THEN Outcome(g, storeErr, 1, 0, NoResult)
    ELSE Outcome(after, ErrNil, 1, 0, NoResult)

\* Faulty variant: the write is sent without the check of the user id.
UpsertUserUnchecked(g, user, storeErr) ==
    ExecuteWrite(g, upsertUserCypher(g, user.ID, user.Attributes, user.PaymentMethods),
                 storeErr)

\* Repository.UpsertUser
RepositoryUpsertUser(g, user, storeErr) ==
    IF user.ID = <<>> THEN Outcome(g, ErrValidation, 0, 0, NoResult)
    ELSE ExecuteWrite(g, upsertUserCypher(g, user.ID, user.Attributes, user.PaymentMethods),
                      storeErr)

\* Repository.UpsertTransaction
RepositoryUpsertTransaction(g, tx, attributes, storeErr) ==
    IF tx.ID = <<>> THEN Outcome(g, ErrValidation, 0, 0, NoResult)
    ELSE IF tx.SenderUserID = <<>> \/ tx.ReceiverUserID = <<>>
    THEN Outcome(g, ErrValidation, 0, 0, NoResult)
    ELSE ExecuteWrite(g, upsertTransactionCypher(g, tx.ID, tx.SenderUserID,
                                                 tx.ReceiverUserID, attributes,
                                                 tx.PaymentMethodID),
                      storeErr)

\* RelationshipService.UpsertUser
ServiceUpsertUser(g, input, storeErr) ==
    IF input.ID = <<>> THEN Outcome(g, ErrValidation, 0, 0, NoResult)
    ELSE RepositoryUpsertUser(
             g,
             [ID |-> input.ID,
              PaymentMethods |-> input.PaymentMethods,
              Attributes |-> FromUser(input) \o convertCustomAttributes(input.Attributes)],
             storeErr)

\* RelationshipService.UpsertTransaction
ServiceUpsertTransaction(g, input, storeErr) ==
    IF input.ID = <<>> THEN Outcome(g, ErrValidation, 0, 0, NoResult)
    ELSE IF input.SenderUserID = <<>> \/ input.ReceiverUserID = <<>>
    THEN Outcome(g, ErrValidation, 0, 0, NoResult)
    ELSE RepositoryUpsertTransaction(
             g,
             [ID |-> input.ID, SenderUserID |-> input.SenderUserID,
              ReceiverUserID |-> input.ReceiverUserID,
              PaymentMethodID |-> input.PaymentMethodID],
             FromTransaction(input), storeErr)

----------------------------------------------------------------------------
(* Relationship queries *)

\* transactionUsersCypher: one row per participation edge of the transaction.
transactionUsersCypher(g, txId) ==
    {[UserID |-> e.src.key, Role |-> e.role,
      Direction |-> IF e.role = "SENDER" THEN "OUTBOUND" ELSE "INBOUND"] :
        e \in {x \in BagToSet(g.edges) :
                  /\ x.type = "PARTICIPATED_IN"
                  /\ x.dst = TxNode(txId)
                  /\ x.src.label = "User"}}

\* transactionLinkedCypher: one row per LINKED_TO edge that leaves the transaction.
transactionLinkedCypher(g, txId) ==
    {[TransactionID |-> e.dst.key, LinkType |-> e.linkType, AttributeHash |-> e.attrHash] :
        e \in {x \in BagToSet(g.edges) :
                  /\ x.type = "LINKED_TO"
                  /\ x.src = TxNode(txId)
                  /\ x.dst.label = "Transaction"}}

\* userDirectLinksCypher: one row per SENT_TO / RECEIVED_FROM edge that leaves the user.
userDirectLinksCypher(g, userId) ==
    {[UserID |-> e.dst.key, LinkType |-> e.type,
      Direction |-> IF e.type = "SENT_TO" THEN "OUTBOUND" ELSE "INBOUND",
      TransactionID |-> e.txId] :
        e \in {x \in BagToSet(g.edges) :
                  /\ x.type \in {"SENT_TO", "RECEIVED_FROM"}
                  /\ x.src = UserNode(userId)
                  /\ x.dst.label = "User"}}

\* userTransactionsCypher: one row per participation edge of the user.
userTransactionsCypher(g, userId) ==
    {[TransactionID |-> e.dst.key, Role |-> e.role] :
        e \in {x \in BagToSet(g.edges) :
                  /\ x.type = "PARTICIPATED_IN"
                  /\ x.src = UserNode(userId)
                  /\ x.dst.label = "Transaction"}}

\* The other users that have attribute node a.
OtherUsers(g, userId, a) ==
    {e.src.key : e \in {x \in BagToSet(g.edges) :
                            /\ x.type = "HAS_ATTRIBUTE"
                            /\ x.dst = a
                            /\ x.src.label = "User"
                            /\ x.src.key # userId}}

\* userSharedAttributesCypher: one row per attribute of the user that another user has.
userSharedAttributesCypher(g, userId) ==
    {[AttributeType |-> a.atype, AttributeHash |-> a.key,
      UserIDs |-> OtherUsers(g, userId, a)] :
        a \in {n \in BagToSet(g.nodes) :
                  /\ n.label = "Attribute"
                  /\ BagIn(PlainEdge("HAS_ATTRIBUTE", UserNode(userId), n), g.edges)
                  /\ OtherUsers(g, userId, n) # {}}}

\* Repository.FetchUserRelationships; failAt is the read statement (1, 2 or 3) the store
\* fails, 0 when it fails none.
FetchUserRelationships(g, userId, failAt) ==
    IF userId = <<>> THEN Outcome(g, ErrValidation, 0, 0, NoResult)
    ELSE IF failAt # 0 THEN Outcome(g, ErrStore, 0, failAt, NoResult)
    ELSE Outcome(g, ErrNil, 0, 3,
                 [NoResult EXCEPT !.DirectLinks = userDirectLinksCypher(g, userId),
                                  !.Transactions = userTransactionsCypher(g, userId),
                                  !.SharedAttributes =
                                      userSharedAttributesCypher(g, userId)])

\* Faulty variant: the first query of the transaction merges its node where it should
\* match it.
FetchTransactionRelationshipsMerging(g, txId, failAt) ==
    IF txId = <<>> THEN Outcome(g, ErrValidation, 0, 0, NoResult)
    ELSE IF failAt = 1 THEN Outcome(g, ErrStore, 0, 1, NoResult)
    ELSE IF failAt = 2 THEN Outcome(MergeNode(g, TxNode(txId)), ErrStore, 1, 2, NoResult)
    ELSE Outcome(MergeNode(g, TxNode(txId)), ErrNil, 1, 2,
                 [NoResult EXCEPT !.Users = transactionUsersCypher(g, txId),
                                  !.LinkedTransactions = transactionLinkedCypher(g, txId)])

\* Repository.FetchTransactionRelationships; failAt is the read statement (1 or 2) the
\* store fails, 0 when it fails none.
FetchTransactionRelationships(g, txId, failAt) ==
    IF txId = <<>> THEN Outcome(g, ErrValidation, 0, 0, NoResult)
    ELSE IF failAt = 1 THEN Outcome(g, ErrStore, 0, 1, NoResult)
    ELSE IF failAt = 2 THEN Outcome(g, ErrStore, 0, 2, NoResult)
    ELSE Outcome(g, ErrNil, 0, 2,
                 [NoResult EXCEPT !.Users = transactionUsersCypher(g, txId),
                                  !.LinkedTransactions = transactionLinkedCypher(g, txId)])

\* Upper bound on the relationships of a path, "*..6" in shortestPathCypher.
MaxPathHops == 6

Neighbors(g, S) ==
    {e.dst : e \in {x \in BagToSet(g.edges) : x.src \in S}}
    \cup {e.src : e \in {x \in BagToSet(g.edges) : x.dst \in S}}

Between(g, a, b) ==
    {e \in BagToSet(g.edges) : (e.src = a /\ e.dst = b) \/ (e.src = b /\ e.dst = a)}

\* Breadth-first levels from the source until the target shows up; <<>> when it does not
\* within k more hops.
RECURSIVE BfsLevels(_, _, _, _, _)
BfsLevels(g, levels, visited, target, k) ==
    LET frontier == levels[Len(levels)]
        next == Neighbors(g, frontier) \ visited
    IN  IF target \in frontier THEN levels
        ELSE IF k = 0 \/ next = {} THEN <<>>
        ELSE BfsLevels(g, Append(levels, next), visited \cup next, target, k - 1)

RECURSIVE PathsTo(_, _, _, _)
PathsTo(g, levels, v, d) ==
    IF d = 1 THEN {<<v>>}
    ELSE UNION {{Append(p, v) : p \in PathsTo(g, levels, u, d - 1)} :
                   u \in {x \in levels[d - 1] : Between(g, x, v) # {}}}

RECURSIVE EdgeSeqs(_, _)
EdgeSeqs(g, p) ==
    IF Len(p) < 2 THEN {<<>>}
    ELSE {<<e>> \o rest : e \in Between(g, p[1], p[2]), rest \in EdgeSeqs(g, Tail(p))}

\* shortestPathCypher: the paths the store may answer with, each a pair of its nodes and
\* its relationships; which of several shortest paths it returns is the store's choice.
\* The empty set when there is no record.
shortestPathCypher(g, sourceId, targetId) ==
    LET source == UserNode(sourceId)
        target == UserNode(targetId)
        levels == BfsLevels(g, <<{source}>>, {source}, target, MaxPathHops)
    IN  IF ~(BagIn(source, g.nodes) /\ BagIn(target, g.nodes)) \/ levels = <<>> THEN {}
        ELSE UNION {{<<p, es>> : es \in EdgeSeqs(g, p)} :
                       p \in PathsTo(g, levels, target, Len(levels))}

PathNode(n) ==
    [ID |-> n.key, Type |-> n.label, Label |-> IF n.label = "Attribute" THEN n.atype ELSE n.key]

PathEdge(e) == [Type |-> e.type, Source |-> e.src.key, Target |-> e.dst.key]

\* The records the store may return for the query of Repository.ShortestPathBetweenUsers;
\* <<>> stands for "no query is sent" and for "no record".
ShortestPathRecords(g, sourceId, targetId) ==
    IF sourceId = <<>> \/ targetId = <<>> \/ sourceId = targetId
       \/ shortestPathCypher(g, sourceId, targetId) = {}
    THEN {<<>>}
    ELSE shortestPathCypher(g, sourceId, targetId)

\* Faulty variant: the query is sent even when source and target are the same user.
ShortestPathAlwaysQueried(g, sourceId, targetId, storeErr, record) ==
    IF sourceId = <<>> \/ targetId = <<>> THEN Outcome(g, ErrValidation, 0, 0, NoResult)
    ELSE IF storeErr # ErrNil THEN Outcome(g, storeErr, 0, 1, NoResult)
    ELSE IF record = <<>> THEN Outcome(g, ErrNil, 0, 1, NoResult)
    ELSE Outcome(g, ErrNil, 0, 1,
                 [NoResult EXCEPT
                    !.Nodes = [i \in 1..Len(record[1]) |-> PathNode(record[1][i])],
                    !.Edges = [i \in 1..Len(record[2]) |-> PathEdge(record[2][i])],
                    !.Hops = Len(record[2])])

\* Faulty variant: an answer without record is reported as an error.
ShortestPathNoRecordIsError(g, sourceId, targetId, storeErr, record) ==
    IF sourceId = <<>> \/ targetId = <<>> THEN Outcome(g, ErrValidation, 0, 0, NoResult)
    ELSE IF sourceId = targetId
    THEN Outcome(g, ErrNil, 0, 0,
                 [NoResult EXCEPT !.Nodes = <<[ID |-> sourceId, Type |-> "User",
                                               Label |-> sourceId]>>,
                                  !.Hops = 0])
    ELSE IF storeErr # ErrNil THEN Outcome(g, storeErr, 0, 1, NoResult)
    ELSE IF record = <<>> THEN Outcome(g, "no path", 0, 1, NoResult)
    ELSE Outcome(g, ErrNil, 0, 1,
                 [NoResult EXCEPT
                    !.Nodes = [i \in 1..Len(record[1]) |-> PathNode(record[1][i])],
                    !.Edges = [i \in 1..Len(record[2]) |-> PathEdge(record[2][i])],
                    !.Hops = Len(record[2])])

\* Repository.ShortestPathBetweenUsers; record is the store's answer, <<>> when none.
ShortestPathBetweenUsers(g, sourceId, targetId, storeErr, record) ==
    IF sourceId = <<>> \/ targetId = <<>> THEN Outcome(g, ErrValidation, 0, 0, NoResult)
    ELSE IF sourceId = targetId
    THEN Outcome(g, ErrNil, 0, 0,
                 [NoResult EXCEPT !.Nodes = <<[ID |-> sourceId, Type |-> "User",
                                               Label |-> sourceId]>>,
                                  !.Hops = 0])
    ELSE IF storeErr # ErrNil THEN Outcome(g, storeErr, 0, 1, NoResult)
    ELSE IF record = <<>> THEN Outcome(g, ErrNil, 0, 1, NoResult)
    ELSE Outcome(g, ErrNil, 0, 1,
                 [NoResult EXCEPT
                    !.Nodes = [i \in 1..Len(record[1]) |-> PathNode(record[1][i])],
                    !.Edges = [i \in 1..Len(record[2]) |-> PathEdge(record[2][i])],
                    !.Hops = Len(record[2])])

\* RelationshipService.GetShortestPathBetweenUsers
GetShortestPathBetweenUsers(g, sourceId, targetId, storeErr, record) ==
    IF sanitizeString(sourceId) = <<>> \/ sanitizeString(targetId) = <<>>
    THEN Outcome(g, ErrValidation, 0, 0, NoResult)
    ELSE ShortestPathBetweenUsers(g, sanitizeString(sourceId), sanitizeString(targetId),
                                  storeErr, record)

----------------------------------------------------------------------------
(* Inputs of the single-item API *)

U1 == <<"u", "1">>
U2 == <<"u", "2">>
T1 == <<"t", "1">>
T2 == <<"t", "2">>
PM1 == <<"p", "1">>

NoAddress == [Line1 |-> <<>>, Line2 |-> <<>>, City |-> <<>>, State |-> <<>>,
              PostalCode |-> <<>>, Country |-> <<>>]

UserInput(id, email, pms) ==
    [ID |-> id, Email |-> email, Phone |-> <<>>, Address |-> NoAddress,
     PaymentMethods |-> pms, Attributes |-> <<>>]

UserInputs ==
    {UserInput(id, email, pms) :
        id \in {U1, U2},
        email \in {<<>>, <<"A", " ">>},
        pms \in {<<>>, <<[ID |-> PM1, Fingerprint |-> <<>>]>>}}
    \cup {UserInput(<<>>, <<"A", " ">>, <<>>)}

TransactionInput(id, sender, receiver, ip, pm, ts) ==
    [ID |-> id, SenderUserID |-> sender, ReceiverUserID |-> receiver, IPAddress |-> ip,
     DeviceID |-> <<>>, PaymentMethodID |-> pm, Timestamp |-> ts]

\* Instants of two different calendar days.
Timestamps == {1, 25}

TransactionInputs ==
    {TransactionInput(id, sr[1], sr[2], ip, pm, ts) :
        id \in {T1, T2},
        sr \in {<<U1, U2>>, <<U2, U1>>},
        ip \in {<<>>, <<" ", "7">>},
        pm \in {<<>>, PM1},
        ts \in Timestamps}
    \cup {TransactionInput(<<>>, U1, U2, <<>>, <<>>, 1),
          TransactionInput(T1, <<>>, U2, <<>>, <<>>, 1),
          TransactionInput(T1, U1, <<>>, <<>>, <<>>, 1)}

\* What a caller of the repository hands over: the domain record the service builds from
\* an input, and the attributes it derives.
DomainUser(input) ==
    [ID |-> input.ID, PaymentMethods |-> input.PaymentMethods,
     Attributes |-> FromUser(input) \o convertCustomAttributes(input.Attributes)]

DomainTransaction(input) ==
    [tx |-> [ID |-> input.ID, SenderUserID |-> input.SenderUserID,
             ReceiverUserID |-> input.ReceiverUserID,
             PaymentMethodID |-> input.PaymentMethodID],
     attributes |-> FromTransaction(input)]

RepositoryUsers ==
    {DomainUser(UserInput(id, <<>>, <<>>)) : id \in {<<>>, U1}}

RepositoryTransactions ==
    {DomainTransaction(input) :
        input \in {TransactionInput(T1, U1, U2, <<>>, <<>>, 1),
                   TransactionInput(<<>>, U1, U2, <<>>, <<>>, 1),
                   TransactionInput(T1, <<>>, U2, <<>>, <<>>, 1),
                   TransactionInput(T1, U1, <<>>, <<>>, <<>>, 1)}}

QueryUserIds == {<<>>, U1, <<" ", "u", "2">>}

QueryTransactionIds == {<<>>, T1, T2}

\* Number of write statements the store runs for the single-item API in one behaviour.
MaxOps == 4

Graph == [nodes |-> nodes, edges |-> edges]

----------------------------------------------------------------------------
(* The single-item API as a state machine *)

Call(op, arg, out) ==
    [op |-> op, arg |-> arg, err |-> out.err, writes |-> out.writes, reads |-> out.reads,
     result |-> out.result, pre |-> Graph,
     repeated |-> last.op = op /\ last.arg = arg /\ last.err = ErrNil]

NoCall ==
    [op |-> "none", arg |-> <<>>, err |-> ErrNil, writes |-> 0, reads |-> 0,
     result |-> NoResult, pre |-> EmptyGraph, repeated |-> FALSE]

BulkIdle ==
    /\ kind = "none"
    /\ items = <<>>
    /\ configured = 0
    /\ ctxDone = FALSE
    /\ midBatch = FALSE
    /\ dispPc = "idle"
    /\ dispI = 0
    /\ wk = <<>>
    /\ errCh = <<>>
    /\ attempts = <<>>
    /\ outcome = <<>>
    /\ ret = [kind |-> "pending", errors |-> <<>>]

\* No ingest CLI is running.
CliIdle ==
    [phase |-> "none", users |-> <<>>, txs |-> <<>>, userAttempts |-> <<>>,
     usersRunning |-> 0]

\* No attribute was generated.
GenIdle ==
    /\ clock = 0
    /\ gen = <<>>
    /\ data = [pc |-> "idle", cfg |-> [NumUsers |-> 0, NumTransactions |-> 0],
               users |-> <<>>, transactions |-> <<>>, err |-> "nil"]

\* No node and no relationship has a property.
NoProps == [node |-> <<>>, edge |-> <<>>]

Init ==
    /\ nodes = EmptyBag
    /\ edges = EmptyBag
    /\ last = NoCall
    /\ opCount = 0
    /\ BulkIdle
    /\ cli = CliIdle
    /\ GenIdle
    /\ props = NoProps

\* A call through the API.  The call always acts on the graph; whether last records it
\* is a free choice, and once a call is recorded only its repetition follows: last is a
\* probe on one call (or on a call and its repetition) of a behaviour, so that every
\* call of every behaviour is recorded in some behaviour without the record of one call
\* multiplying the states of the calls after it.
Recordable(op, arg) ==
    \/ last = NoCall
    \/ last.op = op /\ last.arg = arg /\ ~last.repeated

Apply(op, arg, out) ==
    /\ Recordable(op, arg)
    /\ nodes' = out.g.nodes
    /\ edges' = out.g.edges
    /\ \/ last = NoCall /\ last' = NoCall
       \/ last' = Call(op, arg, out)
    /\ opCount' = IF out.err = ErrNil /\ out.writes > 0 THEN opCount + 1 ELSE opCount
    /\ UNCHANGED <<bulkVars, genVars, props, cli>>

UpsertUser ==
    /\ opCount < MaxOps
    /\ \E input \in UserInputs, storeErr \in {ErrNil, ErrStore} :
           LET out == ServiceUpsertUser(Graph, input, storeErr)
           IN  Apply("UpsertUser", input, out)

UpsertTransaction ==
    /\ opCount < MaxOps
    /\ \E input \in TransactionInputs, storeErr \in {ErrNil, ErrStore} :
           LET out == ServiceUpsertTransaction(Graph, input, storeErr)
           IN  Apply("UpsertTransaction", input, out)

\* Repository.UpsertUser, called without the service in front of it.
RepoUpsertUser ==
    /\ opCount < MaxOps
    /\ \E user \in RepositoryUsers, storeErr \in {ErrNil, ErrStore} :
           LET out == RepositoryUpsertUser(Graph, user, storeErr)
           IN  Apply("Repository.UpsertUser", user, out)

\* Repository.UpsertTransaction, called without the service in front of it.
RepoUpsertTransaction ==
    /\ opCount < MaxOps
    /\ \E t \in RepositoryTransactions, storeErr \in {ErrNil, ErrStore} :
           LET out == RepositoryUpsertTransaction(Graph, t.tx, t.attributes, storeErr)
           IN  Apply("Repository.UpsertTransaction", t, out)

\* RelationshipService.GetUserRelationships
GetUserRelationships ==
    /\ last = NoCall
    /\ \E userId \in {<<>>, U1, U2}, failAt \in 0..3 :
           LET out == FetchUserRelationships(Graph, userId, failAt)
           IN  Apply("FetchUserRelationships", userId, out)

GetTransactionRelationships ==
    /\ last = NoCall
    /\ \E txId \in QueryTransactionIds, failAt \in 0..2 :
           LET out == FetchTransactionRelationships(Graph, txId, failAt)
           IN  Apply("FetchTransactionRelationships", txId, out)

GetShortestPath ==
    /\ last = NoCall
    /\ \E sourceId \in QueryUserIds, targetId \in QueryUserIds,
          storeErr \in {ErrNil, ErrStore} :
           \E record \in ShortestPathRecords(Graph, sanitizeString(sourceId),
                                             sanitizeString(targetId)) :
               LET out == GetShortestPathBetweenUsers(Graph, sourceId, targetId, storeErr,
                                                      record)
               IN  Apply("ShortestPathBetweenUsers", <<sourceId, targetId>>, out)

Next ==
    \/ UpsertUser
    \/ UpsertTransaction
    \/ RepoUpsertUser
    \/ RepoUpsertTransaction
    \/ GetUserRelationships
    \/ GetTransactionRelationships
    \/ GetShortestPath

Spec == Init /\ [][Next]_vars

----------------------------------------------------------------------------
(* BulkIngestor.run: the dispatch loop, the worker goroutines, the aggregation *)

\* Largest worker count a caller configures.
NumWorkers == 2

\* The worker count NewBulkIngestor falls back to.
DefaultWorkers == 4

\* The worker counts handed to NewBulkIngestor: none (0), and 1..NumWorkers.
WorkerConfigs == 0..NumWorkers

\* NewBulkIngestor: bi.workers for the configured count.
NewBulkIngestor(workers) == IF workers <= 0 THEN DefaultWorkers ELSE workers

\* Faulty variant: the loop that starts the workers runs once more.
GoroutinesOneMore(n) == 1..(n + 1)

\* for i := 0; i < bi.workers; i++ { go worker() }: the worker goroutines.
Goroutines(n) == 1..n

\* The worker goroutines of the run under way.
Pool == DOMAIN wk

\* Largest batch handed to IngestUsers/IngestTransactions.
MaxBatch == 3

U3 == <<"u", "3">>
T3 == <<"t", "3">>

\* The item at a position of a batch of users: a user of its own, or one without id.
BulkUserChoices(i) ==
    LET id == IF i = 1 THEN U1 ELSE IF i = 2 THEN U2 ELSE IF i = 3 THEN U3
              ELSE <<"u">> \o NatToStr(i)
    IN  {UserInput(id, <<>>, <<>>), UserInput(<<>>, <<>>, <<>>)}

\* The item at a position of a batch of transactions: a transaction of its own between
\* U1 and U2, or one without sender.
BulkTransactionChoices(i) ==
    LET id == IF i = 1 THEN T1 ELSE IF i = 2 THEN T2 ELSE IF i = 3 THEN T3
              ELSE <<"t">> \o NatToStr(i)
    IN  {TransactionInput(id, U1, U2, <<>>, <<>>, 1),
         TransactionInput(id, <<>>, U2, <<>>, <<>>, 1)}

UserBatches ==
    UNION {{b \in [1..n -> UNION {BulkUserChoices(i) : i \in 1..n}] :
               \A i \in 1..n : b[i] \in BulkUserChoices(i)} : n \in 0..MaxBatch}

TransactionBatches ==
    UNION {{b \in [1..n -> UNION {BulkTransactionChoices(i) : i \in 1..n}] :
               \A i \in 1..n : b[i] \in BulkTransactionChoices(i)} : n \in 0..MaxBatch}

\* The graph a batch of transactions meets: no user ingested, or U1 and U2 ingested.
UsersIngested ==
    upsertUserCypher(upsertUserCypher(EmptyGraph, U1, <<>>, <<>>), U2, <<>>, <<>>)

total == Len(items)

Pending == [kind |-> "pending", errors |-> <<>>]

WorkerIdle == [pc |-> "recv", idx |-> 0, err |-> ErrNil]

\* The start of run: no index dispatched, the workers waiting on indexCh; a run over an
\* empty batch returns at once and starts no worker.
RunStart ==
    /\ ctxDone = FALSE
    /\ midBatch = FALSE
    /\ dispPc = IF items = <<>> THEN "done" ELSE "loop"
    /\ dispI = 0
    /\ wk = [w \in (IF items = <<>> THEN {}
                      ELSE Goroutines(NewBulkIngestor(configured))) |-> WorkerIdle]
    /\ errCh = <<>>
    /\ attempts = [i \in 1..Len(items) |-> 0]
    /\ outcome = [i \in 1..Len(items) |-> "none"]
    /\ ret = IF items = <<>> THEN [kind |-> "nil", errors |-> <<>>] ELSE Pending

InitBulk ==
    /\ last = NoCall
    /\ opCount = 0
    /\ cli = CliIdle
    /\ GenIdle
    /\ props = NoProps
    /\ configured = NumWorkers
    /\ \/ /\ kind = "users"
          /\ items \in UserBatches
          /\ nodes = EmptyBag
          /\ edges = EmptyBag
       \/ /\ kind = "transactions"
          /\ items \in TransactionBatches
          /\ \E g \in {EmptyGraph, UsersIngested} : nodes = g.nodes /\ edges = g.edges
    /\ RunStart

\* Runs of IngestUsers over batches of users with an id, for every configured worker
\* count.
InitPool ==
    /\ last = NoCall
    /\ opCount = 0
    /\ cli = CliIdle
    /\ GenIdle
    /\ props = NoProps
    /\ configured \in WorkerConfigs
    /\ kind = "users"
    /\ items \in {b \in UserBatches : \A i \in 1..Len(b) : b[i].ID # <<>>}
    /\ nodes = EmptyBag
    /\ edges = EmptyBag
    /\ RunStart

\* workerFn(idx): the single-item upsert of the item at index idx (0-based).
workerFn(g, idx, storeErr) ==
    IF kind = "users" THEN ServiceUpsertUser(g, items[idx + 1], storeErr)
    ELSE ServiceUpsertTransaction(g, items[idx + 1], storeErr)

\* The errors a store call can end with: none, a store failure, a lost deadlock, and,
\* once the context is cancelled, the cancellation.
StoreErrors ==
    {ErrNil, ErrStore, ErrDeadlock} \cup (IF ctxDone THEN {ErrCanceled} ELSE {})

\* Faulty variant: the loop stops one index early.
LoopDoneEarly(i) == ~(i < total - 1)

\* for i := 0; i < total; i++
LoopDone(i) == ~(i < total)

\* Loop: select { case indexCh <- i: ... }, met by a worker's "for idx := range indexCh".
Dispatch(w) ==
    /\ dispPc = "loop"
    /\ ~LoopDone(dispI)
    /\ wk[w].pc = "recv"
    /\ wk' = [wk EXCEPT ![w] = [pc |-> "call", idx |-> dispI, err |-> ErrNil]]
    /\ dispI' = dispI + 1
    /\ UNCHANGED <<graphVars, apiVars, genVars, props, cli, kind, items, configured, ctxDone, midBatch, dispPc, errCh,
                   attempts, outcome, ret>>

\* Loop: select { case <-ctx.Done(): break Loop }, then close(indexCh).
DispatchBreak ==
    /\ dispPc = "loop"
    /\ ~LoopDone(dispI)
    /\ ctxDone
    /\ dispPc' = "wait"
    /\ UNCHANGED <<graphVars, apiVars, genVars, props, cli, kind, items, configured, ctxDone, midBatch, dispI, wk, errCh,
                   attempts, outcome, ret>>

\* The loop ran to its end, then close(indexCh).
DispatchEnd ==
    /\ dispPc = "loop"
    /\ LoopDone(dispI)
    /\ dispPc' = "wait"
    /\ UNCHANGED <<graphVars, apiVars, genVars, props, cli, kind, items, configured, ctxDone, midBatch, dispI, wk, errCh,
                   attempts, outcome, ret>>

\* Faulty variant: a worker returns after an error.
AfterCallQuit(err) == IF err # ErrNil THEN "exit" ELSE "recv"

\* Where a worker goes after workerFn returned err.
AfterCall(err) == IF err # ErrNil THEN "send" ELSE "recv"

\* err := workerFn(idx)
WorkerCall(w) ==
    /\ wk[w].pc = "call"
    /\ \E storeErr \in StoreErrors :
           LET out == workerFn(Graph, wk[w].idx, storeErr)
           IN  /\ nodes' = out.g.nodes
               /\ edges' = out.g.edges
               /\ wk' = [wk EXCEPT ![w].pc = AfterCall(out.err), ![w].err = out.err]
               /\ outcome' = [outcome EXCEPT ![wk[w].idx + 1] = out.err]
    /\ attempts' = [attempts EXCEPT ![wk[w].idx + 1] = @ + 1]
    /\ UNCHANGED <<apiVars, genVars, props, cli, kind, items, configured, ctxDone, midBatch, dispPc, dispI, errCh, ret>>

\* select { case errCh <- err: }: the channel holds total errors, so the send is ready.
WorkerSend(w) ==
    /\ wk[w].pc = "send"
    /\ Len(errCh) < total
    /\ errCh' = Append(errCh, wk[w].err)
    /\ wk' = [wk EXCEPT ![w].pc = "recv"]
    /\ UNCHANGED <<graphVars, apiVars, genVars, props, cli, kind, items, configured, ctxDone, midBatch, dispPc, dispI,
                   attempts, outcome, ret>>

\* select { case <-ctx.Done(): return }: the worker leaves with its error unsent.
WorkerAbort(w) ==
    /\ wk[w].pc = "send"
    /\ ctxDone
    /\ wk' = [wk EXCEPT ![w].pc = "exit"]
    /\ UNCHANGED <<graphVars, apiVars, genVars, props, cli, kind, items, configured, ctxDone, midBatch, dispPc, dispI,
                   errCh, attempts, outcome, ret>>

\* "for idx := range indexCh" ends once indexCh is closed; defer wg.Done().
WorkerExit(w) ==
    /\ wk[w].pc = "recv"
    /\ dispPc # "loop"
    /\ wk' = [wk EXCEPT ![w].pc = "exit"]
    /\ UNCHANGED <<graphVars, apiVars, genVars, props, cli, kind, items, configured, ctxDone, midBatch, dispPc, dispI,
                   errCh, attempts, outcome, ret>>

IsCancellation(err) == err = ErrCanceled

\* The loop over errCh: the first cancellation error is returned as it is, every other
\* error is appended to the TaskError; asError gives nil for an empty TaskError.
RECURSIVE Aggregate(_, _)
Aggregate(ch, taskErr) ==
    IF ch = <<>>
    THEN IF taskErr = <<>> THEN [kind |-> "nil", errors |-> <<>>]
         ELSE [kind |-> "TaskError", errors |-> taskErr]
    ELSE IF IsCancellation(Head(ch)) THEN [kind |-> "canceled", errors |-> <<>>]
    ELSE Aggregate(Tail(ch), Append(taskErr, Head(ch)))

\* Faulty variant: run does not wait for its workers.
WaitSkipped == dispPc = "wait"

\* wg.Wait() is over: every worker has run its deferred wg.Done().
WorkersDone == \A w \in Pool : wk[w].pc = "exit"

\* wg.Wait(); close(errCh); the aggregation; return.
Collect ==
    /\ dispPc = "wait"
    /\ WorkersDone
    /\ ret' = Aggregate(errCh, <<>>)
    /\ dispPc' = "done"
    /\ UNCHANGED <<graphVars, apiVars, genVars, props, cli, kind, items, configured, ctxDone, midBatch, dispI, wk, errCh,
                   attempts, outcome>>

Finished == {i \in 1..total : outcome[i] # "none"}

\* The caller's context is cancelled (a signal, a deadline) while run is under way.
Cancel ==
    /\ dispPc \in {"loop", "wait"}
    /\ ~ctxDone
    /\ ctxDone' = TRUE
    /\ midBatch' = (dispI > 0 /\ Cardinality(Finished) < total)
    /\ UNCHANGED <<graphVars, apiVars, genVars, props, cli, kind, items, configured, dispPc, dispI, wk, errCh, attempts,
                   outcome, ret>>

NextBulk ==
    \/ \E w \in Pool : Dispatch(w)
    \/ DispatchBreak
    \/ DispatchEnd
    \/ \E w \in Pool : WorkerCall(w)
    \/ \E w \in Pool : WorkerSend(w)
    \/ \E w \in Pool : WorkerAbort(w)
    \/ \E w \in Pool : WorkerExit(w)
    \/ Collect
    \/ Cancel

SpecBulk == InitBulk /\ [][NextBulk]_vars

SpecPool == InitPool /\ [][NextBulk]_vars

\* The steps of run's own goroutine.
DispatcherStep ==
    \/ \E w \in Pool : Dispatch(w)
    \/ DispatchBreak
    \/ DispatchEnd
    \/ Collect

\* The steps of worker goroutine w outside workerFn.
WorkerStep(w) ==
    /\ w \in Pool
    /\ (WorkerSend(w) \/ WorkerAbort(w) \/ WorkerExit(w))

\* Worker goroutine w is not forever inside one call of workerFn.
UpsertReturns(w) == []<>(w \in Pool => wk[w].pc # "call")

\* The scheduler runs every goroutine that can take a step, and every single-item
\* upsert returns; nothing is assumed about when, or whether, the context is cancelled.
SpecBulkFair ==
    /\ SpecBulk
    /\ WF_vars(DispatcherStep)
    /\ \A w \in 1..NumWorkers : WF_vars(WorkerStep(w))
    /\ \A w \in 1..NumWorkers : UpsertReturns(w)

----------------------------------------------------------------------------
(* The ingest command: IngestUsers over users.json, then IngestTransactions *)
(* over transactions.json, under one context that a signal cancels          *)

\* Largest dataset file the ingest command loads.
MaxDataset == 2

\* users.json: the command exits before ingesting when it holds no user.
CliUserDatasets == {b \in UserBatches : Len(b) \in 1..MaxDataset}

\* transactions.json: the command exits before ingesting when it holds no transaction.
CliTransactionDatasets == {b \in TransactionBatches : Len(b) \in 1..MaxDataset}

\* main up to ingestor.IngestUsers(ctx, users): both datasets loaded, the context not
\* yet cancelled, the graph empty.
InitCli ==
    /\ last = NoCall
    /\ opCount = 0
    /\ GenIdle
    /\ props = NoProps
    /\ configured = NumWorkers
    /\ kind = "users"
    /\ items \in CliUserDatasets
    /\ \E txs \in CliTransactionDatasets :
           cli = [phase |-> "users", users |-> items, txs |-> txs,
                  userAttempts |-> <<>>, usersRunning |-> 0]
    /\ nodes = EmptyBag
    /\ edges = EmptyBag
    /\ RunStart

\* IngestUsers returned nil: main goes on to ingestor.IngestTransactions(ctx, txs) with
\* the same context.  cli keeps how often each user was attempted and how many user
\* upserts are still under way.
CliIngestTransactions ==
    /\ cli.phase = "users"
    /\ dispPc = "done"
    /\ ret.kind = "nil"
    /\ cli' = [cli EXCEPT !.phase = "transactions",
                          !.userAttempts = attempts,
                          !.usersRunning =
                              Cardinality({w \in Pool : wk[w].pc \in {"call", "send"}})]
    /\ kind' = "transactions"
    /\ items' = cli.txs
    /\ dispPc' = "loop"
    /\ dispI' = 0
    /\ wk' = [w \in Goroutines(NewBulkIngestor(configured)) |-> WorkerIdle]
    /\ errCh' = <<>>
    /\ attempts' = [i \in 1..Len(cli.txs) |-> 0]
    /\ outcome' = [i \in 1..Len(cli.txs) |-> "none"]
    /\ ret' = Pending
    /\ UNCHANGED <<graphVars, apiVars, genVars, props, configured, ctxDone, midBatch>>

\* if err := ingestor.Ingest...(ctx, ...); err != nil { os.Exit(1) }
CliExit ==
    /\ cli.phase \in {"users", "transactions"}
    /\ dispPc = "done"
    /\ ret.kind # "nil"
    /\ cli' = [cli EXCEPT !.phase = "failed"]
    /\ UNCHANGED <<graphVars, apiVars, genVars, props, bulkVars>>

\* IngestTransactions returned nil: "ingestion complete".
CliComplete ==
    /\ cli.phase = "transactions"
    /\ dispPc = "done"
    /\ ret.kind = "nil"
    /\ cli' = [cli EXCEPT !.phase = "complete"]
    /\ UNCHANGED <<graphVars, apiVars, genVars, props, bulkVars>>

NextCli ==
    \/ NextBulk
    \/ CliIngestTransactions
    \/ CliExit
    \/ CliComplete

SpecCli == InitCli /\ [][NextCli]_vars

----------------------------------------------------------------------------
(* The attribute generator on its own: calls of FromUser and FromTransaction *)

\* Latest instant of the wall clock.
MaxClock == 2

\* Number of generator calls in one behaviour.
MaxGenCalls == 3

GenUserInputs ==
    {UserInput(U1, <<>>, <<>>),
     UserInput(U1, <<"A", " ">>, <<[ID |-> PM1, Fingerprint |-> <<>>],
                                   [ID |-> <<"p", "2">>, Fingerprint |-> PM1]>>),
     [UserInput(U2, <<"a">>, <<>>) EXCEPT !.Phone = <<"0", "0", "7">>],
     [UserInput(U2, <<>>, <<>>) EXCEPT !.Address = [NoAddress EXCEPT !.City = <<"B">>]]}
    \cup {[UserInput(U1, <<>>, <<>>) EXCEPT
              !.Address = [NoAddress EXCEPT !.Line1 = line1, !.Line2 = line2]] :
            line1 \in {<<"a">>, <<"A", " ">>, <<"a", "|", "b">>},
            line2 \in {<<>>, <<"b">>, <<"b", "|", "b">>}}

GenTransactionInputs ==
    {TransactionInput(T1, U1, U2, <<>>, <<>>, 1),
     TransactionInput(T1, U1, U2, <<" ", "7">>, PM1, 1),
     TransactionInput(T2, U2, U1, <<"7">>, <<>>, 25),
     [TransactionInput(T2, U2, U1, <<>>, <<>>, 25) EXCEPT !.DeviceID = <<"D">>]}

InitGen ==
    /\ nodes = EmptyBag
    /\ edges = EmptyBag
    /\ last = NoCall
    /\ opCount = 0
    /\ BulkIdle
    /\ cli = CliIdle
    /\ GenIdle
    /\ props = NoProps

\* Time passes.
Tick ==
    /\ clock < MaxClock
    /\ clock' = clock + 1
    /\ UNCHANGED <<graphVars, props, apiVars, bulkVars, cli, gen, data>>

\* s.generator.FromUser(input)
CallFromUser ==
    /\ Len(gen) < MaxGenCalls
    /\ \E input \in GenUserInputs :
           gen' = Append(gen, [fn |-> "FromUser", at |-> clock, input |-> input,
                               out |-> FromUser(input)])
    /\ UNCHANGED <<graphVars, props, apiVars, bulkVars, cli, clock, data>>

\* s.generator.FromTransaction(input)
CallFromTransaction ==
    /\ Len(gen) < MaxGenCalls
    /\ \E input \in GenTransactionInputs :
           gen' = Append(gen, [fn |-> "FromTransaction", at |-> clock, input |-> input,
                               out |-> FromTransaction(input)])
    /\ UNCHANGED <<graphVars, props, apiVars, bulkVars, cli, clock, data>>

NextGen ==
    \/ Tick
    \/ CallFromUser
    \/ CallFromTransaction

SpecGen == InitGen /\ [][NextGen]_vars

----------------------------------------------------------------------------
(* Properties of the attribute generator, under SpecGen *)

Components(addr) ==
    <<ToLower(TrimSpace(addr.Line1)), ToLower(TrimSpace(addr.Line2)),
      ToLower(TrimSpace(addr.City)), ToLower(TrimSpace(addr.State)),
      ToLower(TrimSpace(addr.PostalCode)), ToLower(TrimSpace(addr.Country))>>

\* The normalized addresses among the attributes FromUser derived.
Addresses(out) ==
    {out[k].RawValue : k \in {x \in 1..Len(out) : out[x].Type = AttributeTypeAddress}}

\* C27: two addresses are normalized to the same string if and only if each of their six
\* components is equal after trimming and lower-casing, also when a component holds the
\* delimiter "|".
C27_SameAddressIffSameComponents ==
    \A i \in 1..Len(gen), j \in 1..Len(gen) :
        (gen[i].fn = "FromUser" /\ gen[j].fn = "FromUser")
            => (Addresses(gen[i].out) = Addresses(gen[j].out)
                    <=> Components(gen[i].input.Address) = Components(gen[j].input.Address))

----------------------------------------------------------------------------
(* The synthetic data generator: Generator.Generate *)

\* Largest user count and transaction count a caller configures.
MaxUsers == 3
MaxTransactions == 3

\* DefaultConfig().NumUsers and DefaultConfig().NumTransactions
DefaultNumUsers == 10000
DefaultNumTransactions == 100000

\* generator.New: the counts of the configuration, the defaults for counts not above 0.
New(cfg) ==
    [NumUsers |-> IF cfg.NumUsers <= 0 THEN DefaultNumUsers ELSE cfg.NumUsers,
     NumTransactions |-> IF cfg.NumTransactions <= 0 THEN DefaultNumTransactions
                         ELSE cfg.NumTransactions]

\* Generate was called on a generator made by New for configured counts of at least 1.
InitData ==
    /\ nodes = EmptyBag
    /\ edges = EmptyBag
    /\ last = NoCall
    /\ opCount = 0
    /\ BulkIdle
    /\ cli = CliIdle
    /\ props = NoProps
    /\ clock = 0
    /\ gen = <<>>
    /\ \E n \in 1..MaxUsers, m \in 1..MaxTransactions :
           data = [pc |-> "users", cfg |-> New([NumUsers |-> n, NumTransactions |-> m]),
                   users |-> <<>>, transactions |-> <<>>, err |-> ErrNil]

\* One round of the loop over the users: user i+1 gets the id of its index.
GenerateUser ==
    /\ data.pc = "users"
    /\ LET i == Len(data.users)
           users == Append(data.users, <<"u">> \o NatToStr(i + 1))
       IN  data' = [data EXCEPT !.users = users,
                                !.pc = IF Len(users) < data.cfg.NumUsers THEN "users"
                                       ELSE "transactions"]
    /\ UNCHANGED <<graphVars, props, apiVars, bulkVars, cli, clock, gen>>

\* One round of the loop over the transactions: senderIdx and receiverIdx are drawn
\* with rand.Intn(len(users)), and equal indexes move the receiver to the next user.
GenerateTransaction ==
    /\ data.pc = "transactions"
    /\ \E senderIdx \in 0..(Len(data.users) - 1), drawn \in 0..(Len(data.users) - 1) :
           LET receiverIdx == IF senderIdx = drawn THEN (drawn + 1) % Len(data.users)
                              ELSE drawn
               transactions ==
                   Append(data.transactions,
                          [SenderUserID |-> data.users[senderIdx + 1],
                           ReceiverUserID |-> data.users[receiverIdx + 1]])
           IN  data' = [data EXCEPT
                          !.transactions = transactions,
                          !.pc = IF Len(transactions) < data.cfg.NumTransactions
                                 THEN "transactions" ELSE "done"]
    /\ UNCHANGED <<graphVars, props, apiVars, bulkVars, cli, clock, gen>>

\* if err := ctx.Err(); err != nil { return Dataset{}, err }
GenerateCancelled ==
    /\ data.pc \in {"users", "transactions"}
    /\ data' = [data EXCEPT !.pc = "done", !.users = <<>>, !.transactions = <<>>,
                            !.err = ErrCanceled]
    /\ UNCHANGED <<graphVars, props, apiVars, bulkVars, cli, clock, gen>>

NextData ==
    \/ GenerateUser
    \/ GenerateTransaction
    \/ GenerateCancelled

SpecData == InitData /\ [][NextData]_vars

\* C30: every transaction the data generator produced has a sender id different from
\* its receiver id, and both are ids of generated users.
C30_NoSelfTransaction ==
    \A i \in 1..Len(data.transactions) :
        LET tx == data.transactions[i]
            ids == {data.users[j] : j \in 1..Len(data.users)}
        IN  /\ tx.SenderUserID # tx.ReceiverUserID
            /\ tx.SenderUserID \in ids
            /\ tx.ReceiverUserID \in ids

----------------------------------------------------------------------------
(* The store with the properties of its nodes and relationships *)

\* Number of write statements the store runs in one behaviour of SpecStore.
MaxStoreOps == 5

\* SET x += new, and SET x.k = v for new = [k |-> v]: the properties of element x
\* afterwards.  The keys of new are written, every other property of x stays.
SetPlus(m, x, new) ==
    LET old == IF x \in DOMAIN m THEN m[x] ELSE <<>>
    IN  [k \in DOMAIN old \cup DOMAIN new |-> IF k \in DOMAIN new THEN new[k] ELSE old[k]]

\* userProperties: the $props of upsertUserCypher.  A time is <<>> (the zero time, a nil
\* pointer) or <<t>>.
userProperties(u) ==
    LET formatTime(t) == IF t = <<>> THEN <<>> ELSE FormatRFC3339(t[1])
    IN  [fullName |-> u.FullName, email |-> u.Email, phone |-> u.Phone,
         kycStatus |-> u.KYCStatus, riskScore |-> u.RiskScore,
         updatedAt |-> formatTime(u.UpdatedAt),
         addressLine1 |-> u.Address.Line1, addressLine2 |-> u.Address.Line2,
         addressCity |-> u.Address.City, addressState |-> u.Address.State,
         addressPostalCode |-> u.Address.PostalCode,
         addressCountry |-> u.Address.Country]
        @@ (IF u.CreatedAt # <<>> THEN [createdAt |-> formatTime(u.CreatedAt)] ELSE <<>>)
        @@ (IF u.DateOfBirth # <<>> THEN [dateOfBirth |-> formatTime(u.DateOfBirth)]
            ELSE <<>>)

\* The domain.User that RelationshipService.UpsertUser hands to the repository at
\* instant now.
ServiceUser(input, now) ==
    [ID |-> input.ID,
     FullName |-> sanitizeString(input.FullName),
     Email |-> normalizeEmail(input.Email),
     Phone |-> normalizePhone(input.Phone),
     Address |-> input.Address,
     DateOfBirth |-> input.DateOfBirth,
     KYCStatus |-> input.KYCStatus,
     RiskScore |-> input.RiskScore,
     CreatedAt |-> IF input.CreatedAt # <<>> THEN input.CreatedAt ELSE now,
     UpdatedAt |-> IF input.UpdatedAt # <<>> THEN input.UpdatedAt ELSE now,
     PaymentMethods |-> input.PaymentMethods,
     Attributes |-> FromUser(input) \o convertCustomAttributes(input.Attributes)]

\* The properties after upsertUserCypher ran: p with the SET clauses applied, the
\* FOREACH loops in the order of their lists (the last entry of a key is the one that
\* stays).
upsertUserProps(p, user) ==
    LET u == UserNode(user.ID)
        A == 1..Len(user.Attributes)
        P == 1..Len(user.PaymentMethods)
        an(i) == AttrNode(user.Attributes[i].Type, user.Attributes[i].Value)
        pn(i) == PmNode(user.PaymentMethods[i].ID)
        attr(n) == user.Attributes[CHOOSE i \in A :
                                       an(i) = n /\ \A j \in A : an(j) = n => j <= i]
        pm(n) == user.PaymentMethods[CHOOSE i \in P :
                                         pn(i) = n /\ \A j \in P : pn(j) = n => j <= i]
        has(n) == PlainEdge("HAS_ATTRIBUTE", u, n)
    IN  [node |->
            [x \in DOMAIN p.node \cup {u} \cup {an(i) : i \in A} \cup {pn(i) : i \in P} |->
                IF x = u THEN SetPlus(p.node, x, userProperties(user))
                ELSE IF x \in {an(i) : i \in A}
                THEN SetPlus(p.node, x, [rawValue |-> attr(x).RawValue])
                ELSE IF x \in {pn(i) : i \in P}
                THEN SetPlus(p.node, x, [fingerprint |-> pm(x).Fingerprint])
                ELSE p.node[x]],
         edge |->
            [e \in DOMAIN p.edge \cup {has(an(i)) : i \in A} |->
                IF e \in {has(an(i)) : i \in A}
                THEN SetPlus(p.edge, e, [confidenceScore |-> attr(e.dst).ConfidenceScore])
                ELSE p.edge[e]]]

\* The properties after upsertTransactionCypher ran on graph g at instant now: nothing
\* is set when a user is missing; the score of a linkage edge is the score of the
\* attribute of its row.
upsertTransactionProps(p, g, tx, attrs, now) ==
    LET sender == UserNode(tx.SenderUserID)
        receiver == UserNode(tx.ReceiverUserID)
        t == TxNode(tx.ID)
        A == 1..Len(attrs)
        an(i) == AttrNode(attrs[i].Type, attrs[i].Value)
        attr(n) == attrs[CHOOSE i \in A : an(i) = n /\ \A j \in A : an(j) = n => j <= i]
        has(n) == PlainEdge("HAS_ATTRIBUTE", t, n)
        rows == LinkRows(MergeTxAttributes(g, t, attrs), tx.ID, attrs)
        link(r) == Edge("LINKED_TO", t, r[2], <<>>, "", attrs[r[1]].Value, attrs[r[1]].Type)
        moved == {Edge("PARTICIPATED_IN", sender, t, tx.ID, "SENDER", <<>>, ""),
                  Edge("PARTICIPATED_IN", receiver, t, tx.ID, "RECEIVER", <<>>, ""),
                  Edge("SENT_TO", sender, receiver, tx.ID, "", <<>>, ""),
                  Edge("RECEIVED_FROM", receiver, sender, tx.ID, "", <<>>, "")}
        pmr == IF rows # {} /\ tx.PaymentMethodID # <<>>
                  /\ BagIn(PmNode(tx.PaymentMethodID), g.nodes)
               THEN {PlainEdge("PAYMENT_METHOD_RELATES", t, PmNode(tx.PaymentMethodID))}
               ELSE {}
    IN  IF ~(BagIn(sender, g.nodes) /\ BagIn(receiver, g.nodes)) THEN p
        ELSE [node |->
                [x \in DOMAIN p.node \cup {t} \cup {an(i) : i \in A} |->
                    IF x = t
                    THEN SetPlus(p.node, x,
                                 [ipAddress |-> tx.IPAddress, deviceId |-> tx.DeviceID,
                                  paymentMethodId |-> tx.PaymentMethodID,
                                  timestamp |-> FormatRFC3339(tx.Timestamp)])
                    ELSE IF x \in {an(i) : i \in A}
                    THEN SetPlus(p.node, x, [rawValue |-> attr(x).RawValue])
                    ELSE p.node[x]],
              edge |->
                [e \in DOMAIN p.edge \cup moved \cup {has(an(i)) : i \in A}
                       \cup {link(r) : r \in rows} \cup pmr |->
                    IF e \in moved
                    THEN SetPlus(p.edge, e, [timestamp |-> FormatRFC3339(tx.Timestamp)])
                    ELSE IF e \in {has(an(i)) : i \in A}
                    THEN SetPlus(p.edge, e, [origin |-> "TRANSACTION"])
                    ELSE IF e \in {link(r) : r \in rows}
                    THEN SetPlus(p.edge, e,
                                 [score |-> attr(AttrNode(e.linkType, e.attrHash))
                                                .ConfidenceScore,
                                  updatedAt |-> now])
                    ELSE IF e \in pmr THEN SetPlus(p.edge, e, [role |-> "SENDER"])
                    ELSE p.edge[e]]]

\* Users as the API receives them: two names and an optional date of birth for U1,
\* lists of caller-supplied attributes, and U2.
StoreUserInputs ==
    LET user(id, name, dob, custom) ==
            [UserInput(id, <<>>, <<>>) EXCEPT !.Attributes = custom]
            @@ [FullName |-> name, DateOfBirth |-> dob, KYCStatus |-> "VERIFIED",
                RiskScore |-> 0, CreatedAt |-> <<>>, UpdatedAt |-> <<>>]
        custom(type, value, raw, conf) ==
            [Type |-> type, Value |-> value, RawValue |-> raw, ConfidenceScore |-> conf]
    IN  {user(U1, name, dob, <<>>) : name \in {<<"a">>, <<"b", " ">>}, dob \in {<<>>, <<1>>}}
        \cup {user(U2, <<"a">>, <<>>, <<>>)}
        \cup {user(U1, <<"a">>, <<>>, list) :
                list \in {<<custom("", <<"v">>, <<"v">>, 50),
                            custom("X", <<>>, <<"v">>, 50),
                            custom("X", <<"V", " ">>, <<" ", "v">>, 0)>>,
                          <<custom("X", <<"w">>, <<"W">>, 50)>>,
                          <<custom("EMAIL", <<"A">>, <<>>, 150)>>}}

\* RelationshipService.UpsertUser, with the properties it sets.
StoreUpsertUser ==
    /\ opCount < MaxStoreOps
    /\ \E input \in StoreUserInputs, storeErr \in {ErrNil, ErrStore} :
           LET out == ServiceUpsertUser(Graph, input, storeErr)
           IN  /\ nodes' = out.g.nodes
               /\ edges' = out.g.edges
               /\ props' = IF out.err = ErrNil
                           THEN upsertUserProps(props, ServiceUser(input, <<clock>>))
                           ELSE props
               /\ last' = Call("UpsertUser", input, out)
               /\ opCount' = IF out.err = ErrNil THEN opCount + 1 ELSE opCount
    /\ UNCHANGED <<bulkVars, genVars, cli>>

\* RelationshipService.UpsertTransaction, with the properties it sets.
StoreUpsertTransaction ==
    /\ opCount < MaxStoreOps
    /\ \E input \in GenTransactionInputs, storeErr \in {ErrNil, ErrStore} :
           LET out == ServiceUpsertTransaction(Graph, input, storeErr)
           IN  /\ nodes' = out.g.nodes
               /\ edges' = out.g.edges
               /\ props' = IF out.err = ErrNil
                           THEN upsertTransactionProps(props, Graph, input,
                                                       FromTransaction(input), <<clock>>)
                           ELSE props
               /\ last' = Call("UpsertTransaction", input, out)
               /\ opCount' = IF out.err = ErrNil THEN opCount + 1 ELSE opCount
    /\ UNCHANGED <<bulkVars, genVars, cli>>

NextStore ==
    \/ StoreUpsertUser
    \/ StoreUpsertTransaction

SpecStore == Init /\ [][NextStore]_vars

----------------------------------------------------------------------------
(* Properties of the single-item API, under Spec *)

IsUpsert(op) ==
    op \in {"UpsertUser", "UpsertTransaction", "Repository.UpsertUser",
            "Repository.UpsertTransaction"}

\* C1: upserting the same UserInput, or the same TransactionInput, twice in succession
\* leaves the graph with the nodes and edges, and the number of each, that the first
\* upsert left: the second upsert adds no node and no edge.
C1_SecondUpsertAddsNothing ==
    (IsUpsert(last.op) /\ last.repeated /\ last.err = ErrNil)
        => (nodes = last.pre.nodes /\ edges = last.pre.edges)

\* C1: the same transaction, with an IP address and with its sender and receiver
\* present, went through UpsertTransaction twice in succession.
C1_Witness ==
    /\ last.op = "UpsertTransaction"
    /\ last.repeated
    /\ last.err = ErrNil
    /\ last.arg.IPAddress # <<>>
    /\ BagIn(UserNode(last.arg.SenderUserID), last.pre.nodes)
    /\ BagIn(UserNode(last.arg.ReceiverUserID), last.pre.nodes)
    /\ BagIn(TxNode(last.arg.ID), nodes)

\* The keys a call was made with lack a required one.
MissingKey(op, arg) ==
    \/ op \in {"UpsertUser", "Repository.UpsertUser"} /\ arg.ID = <<>>
    \/ /\ op = "UpsertTransaction"
       /\ (arg.ID = <<>> \/ arg.SenderUserID = <<>> \/ arg.ReceiverUserID = <<>>)
    \/ /\ op = "Repository.UpsertTransaction"
       /\ (arg.tx.ID = <<>> \/ arg.tx.SenderUserID = <<>> \/ arg.tx.ReceiverUserID = <<>>)

\* C5: UpsertTransaction for a transaction whose sender or receiver User node is not in
\* the graph returns a store error, and the graph has no Transaction node of that id.
C5_MissingUserIsStoreError ==
    (/\ last.op = "UpsertTransaction"
     /\ ~MissingKey(last.op, last.arg)
     /\ ~(/\ BagIn(UserNode(last.arg.SenderUserID), last.pre.nodes)
          /\ BagIn(UserNode(last.arg.ReceiverUserID), last.pre.nodes)))
        => (last.err = ErrStore /\ ~BagIn(TxNode(last.arg.ID), nodes))

\* The Attribute nodes both transactions have.
SharedAttributes(a, b) ==
    {n \in BagToSet(nodes) :
        /\ n.label = "Attribute"
        /\ BagIn(PlainEdge("HAS_ATTRIBUTE", TxNode(a), n), edges)
        /\ BagIn(PlainEdge("HAS_ATTRIBUTE", TxNode(b), n), edges)}

ShareOnlyAnIP(a, b) ==
    /\ BagIn(TxNode(a), nodes)
    /\ BagIn(TxNode(b), nodes)
    /\ Cardinality(SharedAttributes(a, b)) = 1
    /\ \A n \in SharedAttributes(a, b) : n.atype = AttributeTypeIPAddress

\* C6: once two transactions with the same IP address and no other attribute in common
\* are both upserted, in whichever order, FetchTransactionRelationships of either lists
\* the other among the linked transactions with link type IP.
C6_LinkedBothWays ==
    (last.op = "FetchTransactionRelationships" /\ last.err = ErrNil)
        => \A other \in {T1, T2} \ {last.arg} :
               ShareOnlyAnIP(last.arg, other)
                   => \E row \in last.result.LinkedTransactions :
                          /\ row.TransactionID = other
                          /\ row.LinkType = AttributeTypeIPAddress

\* C7: whatever upserts ran, the graph has at most one User node per userId, one
\* Transaction node per transactionId, one Attribute node per (type, value) and one
\* PaymentMethod node per paymentMethodId.
C7_OneNodePerKey ==
    \A n \in BagToSet(nodes) : CopiesIn(n, nodes) = 1

\* C7: an Attribute node that two owners were merged onto, next to a transaction and a
\* payment method.
C7_Witness ==
    /\ \E e1 \in BagToSet(edges), e2 \in BagToSet(edges) :
           /\ e1.type = "HAS_ATTRIBUTE"
           /\ e2.type = "HAS_ATTRIBUTE"
           /\ e1.dst = e2.dst
           /\ e1.src # e2.src
    /\ \E n \in BagToSet(nodes) : n.label = "Transaction"
    /\ \E n \in BagToSet(nodes) : n.label = "PaymentMethod"

\* C9: UpsertUser with an empty user id, and UpsertTransaction with an empty transaction
\* id, sender id or receiver id, return a validation error, send no write statement and
\* leave the graph as it was.
C9_MissingKeyWritesNothing ==
    (IsUpsert(last.op) /\ MissingKey(last.op, last.arg))
        => /\ last.err = ErrValidation
           /\ last.writes = 0
           /\ nodes = last.pre.nodes
           /\ edges = last.pre.edges

\* C9: a user without id was handed to the repository while the graph held a user.
C9_Witness ==
    /\ last.op = "Repository.UpsertUser"
    /\ last.arg.ID = <<>>
    /\ last.err = ErrValidation
    /\ BagIn(UserNode(U1), nodes)

\* C10: the shortest path from a user to the same user, for a non-empty id U, is the
\* path of the single node U, without edge, of 0 hops, and no read or write statement
\* is sent to the graph client for it.
C10_PathToSelfIsTrivial ==
    (/\ last.op = "ShortestPathBetweenUsers"
     /\ sanitizeString(last.arg[1]) # <<>>
     /\ sanitizeString(last.arg[1]) = sanitizeString(last.arg[2]))
        => /\ last.err = ErrNil
           /\ last.reads = 0
           /\ last.writes = 0
           /\ last.result.Hops = 0
           /\ last.result.Edges = <<>>
           /\ Len(last.result.Nodes) = 1
           /\ last.result.Nodes[1].ID = sanitizeString(last.arg[1])
           /\ last.result.Nodes[1].Type = "User"

\* C10: the path from U1 to U1 was asked for while U1 had a neighbour in the graph.
C10_Witness ==
    /\ last.op = "ShortestPathBetweenUsers"
    /\ last.arg = <<U1, U1>>
    /\ \E e \in BagToSet(edges) : e.src = UserNode(U1)

IsRead(op) ==
    op \in {"FetchUserRelationships", "FetchTransactionRelationships",
            "ShortestPathBetweenUsers"}

\* C11: FetchUserRelationships, FetchTransactionRelationships and
\* ShortestPathBetweenUsers send read statements only: the nodes and edges of the graph
\* are the same before and after each call, whether it succeeds or fails.
C11_ReadsLeaveGraphAlone ==
    IsRead(last.op)
        => /\ last.writes = 0
           /\ nodes = last.pre.nodes
           /\ edges = last.pre.edges

\* C11: the relationships of a transaction with a linked transaction were fetched, and
\* the store failed the second of the two reads.
C11_Witness ==
    /\ last.op = "FetchTransactionRelationships"
    /\ last.err = ErrStore
    /\ last.reads = 2
    /\ transactionLinkedCypher(Graph, last.arg) # {}

\* The two users asked about are distinct and no path of at most MaxPathHops
\* relationships joins them in the graph (which is so when either is missing).
Unconnected(sourceId, targetId) ==
    /\ sourceId # <<>>
    /\ targetId # <<>>
    /\ sourceId # targetId
    /\ shortestPathCypher(Graph, sourceId, targetId) = {}

\* C12: ShortestPathBetweenUsers for two distinct non-empty user ids without a path of
\* at most 6 hops between them, a missing user included, returns a path without nodes
\* and edges and a nil error, whenever the store answers the query.
C12_NoPathIsEmptyPath ==
    (/\ last.op = "ShortestPathBetweenUsers"
     /\ Unconnected(sanitizeString(last.arg[1]), sanitizeString(last.arg[2]))
     /\ last.err # ErrStore)
        => /\ last.err = ErrNil
           /\ last.reads = 1
           /\ last.result.Nodes = <<>>
           /\ last.result.Edges = <<>>

\* C12: both users are in the graph, nothing joins them, and the path was asked for.
C12_Witness ==
    /\ last.op = "ShortestPathBetweenUsers"
    /\ last.err = ErrNil
    /\ BagIn(UserNode(sanitizeString(last.arg[1])), nodes)
    /\ BagIn(UserNode(sanitizeString(last.arg[2])), nodes)
    /\ Unconnected(sanitizeString(last.arg[1]), sanitizeString(last.arg[2]))

----------------------------------------------------------------------------
(* Properties of the bulk ingest, under SpecBulk *)

Returned == dispPc = "done"

\* The item at index i - 1 is in the graph.
Persisted(i) ==
    /\ items[i].ID # <<>>
    /\ BagIn(IF kind = "users" THEN UserNode(items[i].ID) ELSE TxNode(items[i].ID), nodes)

Failed == {i \in 1..total : outcome[i] \notin {"none", ErrNil}}

\* C2: when the context is cancelled with some items dispatched and not all finished,
\* the call returns the cancellation error, never nil and never a TaskError.
C2_CancelledMidBatchReturnsCancellation ==
    (Returned /\ midBatch) => ret.kind = "canceled"

\* C3: the call returns nil only when every item was attempted and workerFn returned
\* nil for every item.
C3_NilOnlyIfAllSucceeded ==
    (Returned /\ ret.kind = "nil")
        => \A i \in 1..total : attempts[i] = 1 /\ outcome[i] = ErrNil

\* C4: with a context that is never cancelled, when exactly k items fail the call
\* returns a TaskError of exactly k errors (nil when k = 0), and exactly the other
\* n - k items are persisted.
C4_PartialFailure ==
    (Returned /\ ~ctxDone)
        => /\ Failed = {} => ret.kind = "nil"
           /\ Failed # {} => (ret.kind = "TaskError" /\ Len(ret.errors) = Cardinality(Failed))
           /\ \A i \in 1..total : Persisted(i) <=> i \notin Failed

\* C14: an item whose upsert fails with a transient store deadlock is retried: when the
\* call returns, no item stands as failed by a deadlock after a single attempt.
C14_DeadlockIsRetried ==
    (Returned /\ ~ctxDone)
        => \A i \in 1..total : outcome[i] = ErrDeadlock => attempts[i] > 1

\* C15: once the context is cancelled, the dispatcher hands no further index to any
\* worker: no step taken with the context cancelled moves the dispatch loop forward.
C15_NoDispatchAfterCancel ==
    [][ctxDone => dispI' = dispI]_vars

\* C16: when the upsert of any item returned a cancellation or deadline error, the call
\* returns that cancellation error and nothing else, whatever per-item errors were
\* collected before or after it.
C16_WorkerCancellationSupersedes ==
    (Returned /\ \E i \in 1..total : IsCancellation(outcome[i]))
        => ret.kind = "canceled"

\* The workers whose single-item upsert is in progress.
InProgress == {w \in Pool : wk[w].pc = "call"}

\* C18: at every moment of a bulk ingest the run has w workers and at most w single-item
\* upserts are in progress, where w is the configured worker count, or 4 when the
\* configured count is zero or negative.
C18_AtMostWInProgress ==
    LET w == IF configured <= 0 THEN 4 ELSE configured
    IN  /\ Cardinality(InProgress) <= w
        /\ Cardinality(Pool) <= w
        /\ dispPc = "loop" => Cardinality(Pool) = w

\* C18: every worker of a run with a configured count has its upsert in progress.
C18_Witness ==
    /\ configured > 1
    /\ Cardinality(InProgress) = configured

\* C17: every bulk ingest call returns, under every interleaving of dispatcher, workers
\* and cancellation, provided every single-item upsert returns.
C17_RunTerminates ==
    <>Returned

\* C17: a run cancelled with an index undispatched and an error dropped by a worker has
\* returned.
C17_Witness ==
    /\ Returned
    /\ ctxDone
    /\ \E i \in 1..total : attempts[i] = 0
    /\ \E w \in Pool : wk[w].err # ErrNil /\ Len(errCh) = 0

\* C19: the call returns only after every single-item upsert it started has finished:
\* once it has returned, with or without cancellation, no worker is inside an upsert
\* and none is waiting to send a result.
C19_ReturnsAfterAllUpserts ==
    Returned => \A w \in Pool : wk[w].pc = "exit"

\* C19: a cancelled run that started several upserts and collected an error has
\* returned.
C19_Witness ==
    /\ Returned
    /\ ctxDone
    /\ Cardinality({i \in 1..total : attempts[i] > 0}) > 1
    /\ ret.kind = "TaskError"

\* C20: in the ingest command a transaction upsert is attempted only after every user
\* of the dataset was attempted and IngestUsers returned without error, and no user
\* upsert is still under way by then.  (IngestTransactions is reached only on a nil
\* return of IngestUsers, which is what the phase records.)
C20_UsersBeforeTransactions ==
    (cli.phase = "transactions" /\ \E i \in 1..total : attempts[i] > 0)
        => /\ \A j \in 1..Len(cli.users) : cli.userAttempts[j] > 0
           /\ cli.usersRunning = 0

\* The participation edges with the given role that point at transaction node t, each
\* counted as often as the graph holds it.
Participations(t, role) ==
    LET es == {e \in BagToSet(edges) :
                  e.type = "PARTICIPATED_IN" /\ e.dst = t /\ e.role = role}
    IN  [e \in es |-> CopiesIn(e, edges)]

\* C21: every Transaction node has exactly one incoming participation edge with role
\* SENDER and exactly one with role RECEIVER, also after its id was upserted again with
\* another sender or receiver.
C21_OneSenderOneReceiver ==
    \A t \in BagToSet(nodes) :
        t.label = "Transaction" =>
            \A role \in {"SENDER", "RECEIVER"} :
                /\ Cardinality(DOMAIN Participations(t, role)) = 1
                /\ \A e \in DOMAIN Participations(t, role) : Participations(t, role)[e] = 1

\* C24: after a successful UpsertTransaction between two existing users whose
\* paymentMethodId is non-empty and names an existing PaymentMethod node, the reference
\* edge from the Transaction to that PaymentMethod exists.
C24_PaymentMethodReferenced ==
    (/\ last.op = "UpsertTransaction"
     /\ last.err = ErrNil
     /\ last.arg.PaymentMethodID # <<>>
     /\ BagIn(PmNode(last.arg.PaymentMethodID), nodes)
     /\ BagIn(UserNode(last.arg.SenderUserID), last.pre.nodes)
     /\ BagIn(UserNode(last.arg.ReceiverUserID), last.pre.nodes))
        => BagIn(PlainEdge("PAYMENT_METHOD_RELATES", TxNode(last.arg.ID),
                           PmNode(last.arg.PaymentMethodID)),
                 edges)

\* C26: no call removes anything: the nodes and the relationships of the graph only
\* grow, whatever is upserted again with changed fields.
C26_NothingRemoved ==
    [][(nodes \sqsubseteq nodes') /\ (edges \sqsubseteq edges')]_vars

\* C26: transaction t1 was upserted again with the other user as sender and without its
\* IP address; the participation edge of its first sender and its possession of the IP
\* attribute are still there.
C26_Witness ==
    /\ last.op = "UpsertTransaction"
    /\ last.err = ErrNil
    /\ last.arg.ID = T1
    /\ last.arg.SenderUserID = U2
    /\ last.arg.IPAddress = <<>>
    /\ BagIn(Edge("PARTICIPATED_IN", UserNode(U1), TxNode(T1), T1, "SENDER", <<>>, ""),
             edges)
    /\ \E e \in BagToSet(edges) :
           e.type = "HAS_ATTRIBUTE" /\ e.src = TxNode(T1)
           /\ e.dst.atype = AttributeTypeIPAddress

\* C23: after a successful UpsertUser the non-identity properties of the User node are
\* those of the input just upserted, all of them and no other: a property that an
\* earlier input set and this one leaves unset is gone.
C23_UpsertReplacesScalars ==
    (last.op = "UpsertUser" /\ last.err = ErrNil)
        => props.node[UserNode(last.arg.ID)]
               = userProperties(ServiceUser(last.arg, <<clock>>))

\* The attribute and payment-method edges that leave a user in a bag of edges.
UserEdges(es, userId) ==
    {e \in BagToSet(es) :
        e.src = UserNode(userId) /\ e.type \in {"HAS_ATTRIBUTE", "USES_PAYMENT_METHOD"}}

\* The attribute and payment-method edges that an input gives its user.
InputEdges(input) ==
    LET user == ServiceUser(input, <<clock>>)
    IN  {PlainEdge("HAS_ATTRIBUTE", UserNode(user.ID),
                   AttrNode(user.Attributes[i].Type, user.Attributes[i].Value)) :
            i \in 1..Len(user.Attributes)}
        \cup {PlainEdge("USES_PAYMENT_METHOD", UserNode(user.ID),
                        PmNode(user.PaymentMethods[i].ID)) :
                 i \in 1..Len(user.PaymentMethods)}

\* C22: each successful upsert is one write statement, so concurrent upserts of one
\* user id take effect one after the other: the User node then carries the scalar
\* properties of the input written last and of no other, and the user's attribute and
\* payment-method edges are those it had together with those of that input.
C22_LastWriteWinsEdgesAccumulate ==
    /\ (last.op \in {"UpsertUser", "UpsertTransaction"} /\ last.err = ErrNil)
           => last.writes = 1
    /\ (last.op = "UpsertUser" /\ last.err = ErrNil)
           => /\ props.node[UserNode(last.arg.ID)]
                    = userProperties(ServiceUser(last.arg, <<clock>>))
              /\ UserEdges(edges, last.arg.ID)
                    = UserEdges(last.pre.edges, last.arg.ID) \cup InputEdges(last.arg)

C28_ConfidenceWithinUnitInterval ==
    \A e \in BagToSet(edges) :
        /\ (e.type = "HAS_ATTRIBUTE" /\ e.src.label = "User")
               => (props.edge[e].confidenceScore >= 0
                   /\ props.edge[e].confidenceScore <= defaultConfidenceScore)
        /\ e.type = "LINKED_TO"
               => (props.edge[e].score >= 0 /\ props.edge[e].score <= defaultConfidenceScore)

C8_EveryIndexOnce ==
    ~ctxDone
        => /\ \A i \in 1..total : attempts[i] <= 1
           /\ Returned => \A i \in 1..total : attempts[i] = 1

\* C8: a batch of several items, some failed and some not, ran to its end without
\* cancellation.
C8_Witness ==
    /\ Returned
    /\ ~ctxDone
    /\ total >= 2
    /\ \E i \in 1..total : outcome[i] = ErrValidation
    /\ \E i \in 1..total : outcome[i] = ErrNil

====
